---------------------------- MODULE Spec2Model ----------------------------
(***************************************************************************)
(* A model of 01_SEC_10k_embedding.ipynb: the spaCy token filter           *)
(* (parse_sections) and its parallel map, the year split, wrap, the        *)
(* Doc2Vec train-or-load / evaluate cells (Corpus, eval_model) and the     *)
(* sentence-transformer pooling (mean_pooling, get_embeddings).            *)
(*                                                                         *)
(* Python strings are sequences of one-character strings, so that join,    *)
(* split and f-string prefixing are computed and not assumed.  A Python    *)
(* dict of columns is a record or a function from column names to lists.   *)
(* Each group of cells has its own variables and its own specification;    *)
(* a specification leaves the other groups at their idle value.            *)
(***************************************************************************)
EXTENDS Integers, Sequences, FiniteSets, TLC

VARIABLES
    \* parse_sections applied to one batch
    examples, col_names, res,
    \* Dataset.map(parse_sections, batched=True, num_proc=NUM_PROC)
    mapData, mapOwner, mapPos, mapOut,
    \* eval_model(valid_corpus, train_corpus, gensim_model)
    evTrain, evTest, doc_id, sims, top, sim_docs, evSeen, evAcc,
    \* get_embeddings(data, col_name) on one batch
    plData, sample_map, attention_mask, token_embeddings, plOut,
    \* wrap(data, col_names, new_name) and concatenate_datasets(wrapped)
    wrData, wrCols, wrName, wrapped, wrOut,
    \* the Doc2Vec cells of one kernel after another, the files they leave,
    \* and the number of training and save calls made so far
    pc, setOrder, train_parsed, train_corpus, gensim_model, disk, evalLast, ran,
    \* the load cell and the year split
    FROM_DISK, dataDisk, dataset, train, test, splitPc,
    \* the objects a call is given and creates, and the calls made
    heap, calls

parseVars == <<examples, col_names, res>>
mapVars == <<mapData, mapOwner, mapPos, mapOut>>
evalVars == <<evTrain, evTest, doc_id, sims, top, sim_docs, evSeen, evAcc>>
poolVars == <<plData, sample_map, attention_mask, token_embeddings, plOut>>
wrapVars == <<wrData, wrCols, wrName, wrapped, wrOut>>
runVars == <<pc, setOrder, train_parsed, train_corpus, gensim_model, disk, evalLast, ran>>
splitVars == <<FROM_DISK, dataDisk, dataset, train, test, splitPc>>
frameVars == <<heap, calls>>
vars == <<parseVars, mapVars, evalVars, poolVars, wrapVars, runVars, splitVars, frameVars>>

\* Python's None; every variable that may hold it otherwise holds a record
None == [none |-> TRUE]

---------------------------------------------------------------------------
(* Strings *)

S_parsed_ == <<"p", "a", "r", "s", "e", "d", "_">>
S_section_1 == <<"s", "e", "c", "t", "i", "o", "n", "_", "1">>
S_section_1A == <<"s", "e", "c", "t", "i", "o", "n", "_", "1", "A">>
S_section_7 == <<"s", "e", "c", "t", "i", "o", "n", "_", "7">>
S_section_7A == <<"s", "e", "c", "t", "i", "o", "n", "_", "7", "A">>

\* SECTIONS_TO_PARSE = ['section_1', 'section_1A', 'section_7', 'section_7A']
SECTIONS_TO_PARSE == <<S_section_1, S_section_1A, S_section_7, S_section_7A>>

\* f"parsed_{section}"
ParsedName(section) == S_parsed_ \o section

Range(s) == {s[i] : i \in DOMAIN s}

SeqsUpTo(S, n) == UNION {[1..k -> S] : k \in 0..n}

\* sep.join(words)
RECURSIVE Join(_, _)
Join(sep, words) ==
    IF Len(words) = 0 THEN <<>>
    ELSE IF Len(words) = 1 THEN words[1]
    ELSE words[1] \o sep \o Join(sep, Tail(words))

\* s.split(sep) for a one-character separator
RECURSIVE SplitFrom(_, _, _)
SplitFrom(s, sep, cur) ==
    IF Len(s) = 0 THEN <<cur>>
    ELSE IF Head(s) = sep THEN <<cur>> \o SplitFrom(Tail(s), sep, <<>>)
    ELSE SplitFrom(Tail(s), sep, Append(cur, Head(s)))

Split(s, sep) == SplitFrom(s, sep, <<>>)

---------------------------------------------------------------------------
(* spaCy tokens.  The raw text of a section is represented by the tokens   *)
(* nlp() finds in it, each with the attributes nlp() gives it.             *)

Tok(text, stop, digit, alpha, punct, space, lemma, pos) ==
    [text |-> text, is_stop |-> stop, is_digit |-> digit, is_alpha |-> alpha,
     is_punct |-> punct, is_space |-> space, lemma_ |-> lemma, pos_ |-> pos]

T_risk == Tok(<<"r", "i", "s", "k">>, FALSE, FALSE, TRUE, FALSE, FALSE, "risk", "NOUN")
T_debt == Tok(<<"d", "e", "b", "t">>, FALSE, FALSE, TRUE, FALSE, FALSE, "debt", "NOUN")
T_the == Tok(<<"t", "h", "e">>, TRUE, FALSE, TRUE, FALSE, FALSE, "the", "DET")
T_it == Tok(<<"i", "t">>, TRUE, FALSE, TRUE, FALSE, FALSE, "-PRON-", "PRON")
T_10 == Tok(<<"1", "0">>, FALSE, TRUE, FALSE, FALSE, FALSE, "10", "NUM")
T_dot == Tok(<<".">>, FALSE, FALSE, FALSE, TRUE, FALSE, ".", "PUNCT")
T_etc == Tok(<<"e", "t", "c">>, FALSE, FALSE, TRUE, FALSE, FALSE, "etc", "X")

Tokens == {T_risk, T_debt, T_the, T_it, T_10, T_dot, T_etc}

\* doc.sents: the parser ends a sentence after a full stop
RECURSIVE SentsFrom(_, _)
SentsFrom(text, cur) ==
    IF Len(text) = 0 THEN (IF Len(cur) = 0 THEN <<>> ELSE <<cur>>)
    ELSE IF Head(text) = T_dot
         THEN <<Append(cur, Head(text))>> \o SentsFrom(Tail(text), <<>>)
         ELSE SentsFrom(Tail(text), Append(cur, Head(text)))

\* doc = nlp(text)
nlp(text) == [sents |-> SentsFrom(text, <<>>)]

---------------------------------------------------------------------------
(* parse_sections *)

\* the filter with its stop-word test left out
AnyExcludedNoStop(token) ==
    \/ token.is_digit
    \/ ~token.is_alpha
    \/ token.is_punct
    \/ token.is_space
    \/ token.lemma_ = "-PRON-"
    \/ token.pos_ \in {"PUNCT", "SYM", "X"}

\* any([token.is_stop, ..., token.pos_ in ['PUNCT', 'SYM', 'X']])
AnyExcluded(token) ==
    \/ token.is_stop
    \/ token.is_digit
    \/ ~token.is_alpha
    \/ token.is_punct
    \/ token.is_space
    \/ token.lemma_ = "-PRON-"
    \/ token.pos_ \in {"PUNCT", "SYM", "X"}

\* if not any([...]): clean_sentence.append(token.text)
Retained(token) == ~AnyExcluded(token)

\* for token in sentence: ...
RECURSIVE CleanTokens(_, _)
CleanTokens(sentence, clean_sentence) ==
    IF Len(sentence) = 0 THEN clean_sentence
    ELSE CleanTokens(Tail(sentence),
                     IF Retained(Head(sentence))
                     THEN Append(clean_sentence, Head(sentence).text)
                     ELSE clean_sentence)

\* for sentence in doc.sents: if sentence is not None: ...
RECURSIVE CleanSents(_, _)
CleanSents(sents, clean_sentence) ==
    IF Len(sents) = 0 THEN clean_sentence
    ELSE CleanSents(Tail(sents), CleanTokens(Head(sents), clean_sentence))

\* the body of "for text in examples[col]": the entry appended to docs
ParseText(text, clean_sentence) ==
    LET doc == nlp(text)
        cleaned == CleanSents(doc.sents, clean_sentence)
    IN  [clean_sentence |-> cleaned,
         entry |-> IF Len(cleaned) > 0 THEN Join(<<" ">>, cleaned) ELSE <<>>]

\* for text in examples[col]: clean_sentence = []; ...; docs.append(...)
RECURSIVE ParseColumnLeaky(_, _, _)
ParseColumnLeaky(texts, docs, carried) ==
    IF Len(texts) = 0 THEN docs
    ELSE LET p == ParseText(Head(texts), carried)
         IN  ParseColumnLeaky(Tail(texts), Append(docs, p.entry), p.clean_sentence)

\* the loop with an empty document skipped instead of appended as ""
RECURSIVE ParseColumnDropEmpty(_, _)
ParseColumnDropEmpty(texts, docs) ==
    IF Len(texts) = 0 THEN docs
    ELSE LET entry == ParseText(Head(texts), <<>>).entry
         IN  ParseColumnDropEmpty(Tail(texts),
                                  IF entry = <<>> THEN docs ELSE Append(docs, entry))

RECURSIVE ParseColumnFrom(_, _)
ParseColumnFrom(texts, docs) ==
    IF Len(texts) = 0 THEN docs
    ELSE ParseColumnFrom(Tail(texts), Append(docs, ParseText(Head(texts), <<>>).entry))

ParseColumnCarry(texts) == ParseColumnLeaky(texts, <<>>, <<>>)

ParseColumn(texts) == ParseColumnFrom(texts, <<>>)

\* def parse_sections(examples, col_names)
parse_sections(ex, cols) ==
    LET sections == [col \in Range(cols) |-> ParseColumn(ex.cols[col])]
    IN  [cik |-> ex.cik, year |-> ex.year,
         cols |-> [name \in {ParsedName(section) : section \in DOMAIN sections} |->
                     sections[CHOOSE section \in DOMAIN sections :
                                  ParsedName(section) = name]]]

---------------------------------------------------------------------------
(* One call of parse_sections on a batch (specification SpecParse).        *)
(* A batch has 1..MaxBatch records, the columns col_names, and at most     *)
(* MaxTotalTokens tokens spread over its cells.                            *)

MaxBatch == 2
MaxTotalTokens == 3

ColNameLists == {<<S_section_1A>>, <<S_section_1, S_section_7A>>}

\* the non-decreasing cut points that spread k tokens over the given cells
CutTable ==
    [cells \in 1..(2 * MaxBatch), k \in 0..MaxTotalTokens |->
        {c \in [1..(cells - 1) -> 0..k] :
            \A j \in 1..(cells - 2) : c[j] <= c[j + 1]}]

CellText(toks, cuts, cells, j) ==
    SubSeq(toks, (IF j = 1 THEN 0 ELSE cuts[j - 1]) + 1,
                 IF j = cells THEN Len(toks) ELSE cuts[j])

MakeBatch(n, cols, toks, cuts) ==
    [cik |-> [i \in 1..n |-> 1000 + i],
     year |-> [i \in 1..n |-> 2014 + (i % 2)],
     cols |-> [col \in Range(cols) |->
                 [i \in 1..n |->
                     CellText(toks, cuts, n * Len(cols),
                              (i - 1) * Len(cols)
                                + CHOOSE c \in 1..Len(cols) : cols[c] = col)]]]

IdleParse == examples = None /\ col_names = None /\ res = None
IdleEval ==
    /\ evTrain = None /\ evTest = None /\ doc_id = None /\ top = None
    /\ sim_docs = None /\ evSeen = None /\ evAcc = None /\ sims = None
IdlePool ==
    /\ plData = None /\ sample_map = None /\ attention_mask = None
    /\ token_embeddings = None /\ plOut = None
IdleWrap ==
    /\ wrData = None /\ wrCols = None /\ wrName = None
    /\ wrapped = None /\ wrOut = None
IdleRun ==
    /\ pc = None /\ setOrder = None /\ train_parsed = None /\ train_corpus = None
    /\ gensim_model = None /\ disk = None /\ evalLast = None /\ ran = None
IdleSplit ==
    /\ FROM_DISK = None /\ dataDisk = None /\ dataset = None
    /\ train = None /\ test = None /\ splitPc = None
IdleMap == mapData = None /\ mapOwner = None /\ mapPos = None /\ mapOut = None
IdleFrame == heap = None /\ calls = None

InitParse ==
    /\ \E n \in 1..MaxBatch, cols \in ColNameLists :
         \E toks \in SeqsUpTo(Tokens, MaxTotalTokens) :
           \E cuts \in CutTable[n * Len(cols), Len(toks)] :
              /\ examples = MakeBatch(n, cols, toks, cuts)
              /\ col_names = cols
    /\ res = None
    /\ IdleMap /\ IdleEval /\ IdlePool /\ IdleWrap /\ IdleRun /\ IdleSplit /\ IdleFrame

\* res = parse_sections(examples, col_names)
ParseSections ==
    /\ res = None
    /\ res' = parse_sections(examples, col_names)
    /\ UNCHANGED <<examples, col_names, mapVars, evalVars, poolVars, wrapVars, runVars, splitVars, frameVars>>

NextParse == ParseSections

SpecParse == InitParse /\ [][NextParse]_vars

\* the words of a cleaned text
Words(entry) == IF entry = <<>> THEN {} ELSE Range(Split(entry, " "))

\* C1: every token retained in a cleaned text is a token of the input text
\* of that record and column that is not a stop word, not a digit, is
\* alphabetic, not punctuation, not whitespace, whose lemma is not '-PRON-'
\* and whose part of speech is not PUNCT, SYM or X.
C1_RetainedTokensPassFilter ==
    res # None =>
      \A col \in Range(col_names) : \A i \in DOMAIN examples.cols[col] :
        \A word \in Words(res.cols[ParsedName(col)][i]) :
          \E token \in Range(examples.cols[col][i]) :
            /\ token.text = word
            /\ ~token.is_stop /\ ~token.is_digit /\ token.is_alpha
            /\ ~token.is_punct /\ ~token.is_space
            /\ token.lemma_ # "-PRON-"
            /\ token.pos_ \notin {"PUNCT", "SYM", "X"}

\* a parsed text that kept two tokens and dropped a stop word between them
C1_Witness ==
    /\ res # None
    /\ \E col \in Range(col_names) : \E i \in DOMAIN examples.cols[col] :
         /\ examples.cols[col][i] = <<T_risk, T_the, T_debt>>
         /\ Words(res.cols[ParsedName(col)][i]) = {T_risk.text, T_debt.text}


\* the texts of the tokens of a raw text that pass the filter, in order
KeptWords(text) ==
    LET kept == SelectSeq(text, LAMBDA token :
                    /\ ~token.is_stop /\ ~token.is_digit /\ token.is_alpha
                    /\ ~token.is_punct /\ ~token.is_space
                    /\ token.lemma_ # "-PRON-"
                    /\ token.pos_ \notin {"PUNCT", "SYM", "X"})
    IN  [k \in 1..Len(kept) |-> kept[k].text]

\* C13: the result of parse_sections has the batch's cik and year lists,
\* exactly the columns parsed_<col>, and in each of them one entry per
\* input record at the record's position; the entry is the empty string
\* when no token of the text is retained, and otherwise the retained
\* tokens in their original order with one space between neighbours.
C13_OneEntryPerRecordAndColumn ==
    res # None =>
      /\ res.cik = examples.cik
      /\ res.year = examples.year
      /\ DOMAIN res.cols = {ParsedName(col) : col \in Range(col_names)}
      /\ \A col \in Range(col_names) :
           /\ DOMAIN res.cols[ParsedName(col)] = DOMAIN examples.cols[col]
           /\ Len(res.cols[ParsedName(col)]) = Len(examples.cik)
           /\ \A i \in DOMAIN examples.cols[col] :
                IF Len(KeptWords(examples.cols[col][i])) = 0
                THEN res.cols[ParsedName(col)][i] = <<>>
                ELSE Split(res.cols[ParsedName(col)][i], " ")
                       = KeptWords(examples.cols[col][i])

\* a batch of two records: a non-empty text that cleans to the empty
\* string, followed by a text that keeps two words
C13_Witness ==
    /\ res # None
    /\ Len(examples.cik) = 2
    /\ \E col \in Range(col_names) :
         /\ Len(examples.cols[col][1]) > 0
         /\ res.cols[ParsedName(col)][1] = <<>>
         /\ Len(KeptWords(examples.cols[col][2])) = 2
         /\ Len(examples.cols[col][2]) = 2

---------------------------------------------------------------------------
(* train.map(parse_sections, batched=True,                                 *)
(*           fn_kwargs={"col_names": SECTIONS_TO_PARSE},                   *)
(*           num_proc=NUM_PROC)            (specification SpecMap).        *)
(* Every record is given to one of the NUM_PROC worker processes; a worker *)
(* takes the records of its shard in order, a batch at a time, calls       *)
(* parse_sections on the batch and writes the rows of its result.          *)

NUM_PROC == 4
MaxMapRecords == 2

MapTexts == {<<T_the>>, <<T_risk, T_dot, T_debt>>}

MapRow(i, a, b) ==
    [cik |-> 1000 + i, year |-> 2015,
     cols |-> [col \in Range(SECTIONS_TO_PARSE) |->
                 IF col \in {S_section_1, S_section_7A} THEN a ELSE b]]

\* the records of worker w, in dataset order
RECURSIVE ShardFrom(_, _, _)
ShardFrom(owner, w, i) ==
    IF i > Len(owner) THEN <<>>
    ELSE (IF owner[i] = w THEN <<i>> ELSE <<>>) \o ShardFrom(owner, w, i + 1)

Shard(owner, w) == ShardFrom(owner, w, 1)

\* the batch (a dict of columns) holding the records idx of the dataset
BatchOf(data, idx) ==
    [cik |-> [j \in 1..Len(idx) |-> data[idx[j]].cik],
     year |-> [j \in 1..Len(idx) |-> data[idx[j]].year],
     cols |-> [col \in Range(SECTIONS_TO_PARSE) |->
                 [j \in 1..Len(idx) |-> data[idx[j]].cols[col]]]]

\* row j of a dict of columns
RowOf(batch, j) ==
    [cik |-> batch.cik[j], year |-> batch.year[j],
     cols |-> [name \in DOMAIN batch.cols |-> batch.cols[name][j]]]

InitMap ==
    /\ \E n \in 1..MaxMapRecords :
         /\ \E a \in [1..n -> MapTexts], b \in [1..n -> MapTexts] :
              mapData = [i \in 1..n |-> MapRow(i, a[i], b[i])]
         /\ mapOwner \in [1..n -> 1..NUM_PROC]
         /\ mapOut = [i \in 1..n |-> None]
    /\ mapPos = [w \in 1..NUM_PROC |-> 0]
    /\ IdleParse /\ IdleEval /\ IdlePool /\ IdleWrap /\ IdleRun /\ IdleSplit /\ IdleFrame

\* worker w maps its next batch of b records
MapBatch(w) ==
    LET shard == Shard(mapOwner, w)
    IN  \E b \in 1..(Len(shard) - mapPos[w]) :
          LET idx == SubSeq(shard, mapPos[w] + 1, mapPos[w] + b)
              out == parse_sections(BatchOf(mapData, idx), SECTIONS_TO_PARSE)
          IN  /\ mapOut' = [i \in DOMAIN mapOut |->
                              IF \E j \in 1..b : idx[j] = i
                              THEN RowOf(out, CHOOSE j \in 1..b : idx[j] = i)
                              ELSE mapOut[i]]
              /\ mapPos' = [mapPos EXCEPT ![w] = @ + b]
              /\ UNCHANGED <<mapData, mapOwner, parseVars, evalVars, poolVars, wrapVars, runVars, splitVars, frameVars>>

NextMap == \E w \in 1..NUM_PROC : MapBatch(w)

SpecMap == InitMap /\ [][NextMap]_vars

\* C10: whatever the batches and the workers they are given to, the row
\* written for a record is the row parse_sections returns for that record
\* alone, and a row is written exactly when its own worker has passed it.
C10_RowWiseIndependent ==
    \A i \in DOMAIN mapOut :
      LET shard == Shard(mapOwner, mapOwner[i])
          at == CHOOSE j \in 1..Len(shard) : shard[j] = i
      IN  /\ (mapOut[i] # None) <=> (at <= mapPos[mapOwner[i]])
          /\ mapOut[i] # None =>
               mapOut[i] = RowOf(parse_sections(BatchOf(mapData, <<i>>),
                                                SECTIONS_TO_PARSE), 1)

\* two records went through one worker and all rows are written
C10_Witness ==
    /\ Len(mapOut) >= 2
    /\ mapOwner[1] = mapOwner[2]
    /\ \A i \in DOMAIN mapOut : mapOut[i] # None
    /\ mapData[1].cols[S_section_1] = <<T_risk, T_dot, T_debt>>
    /\ mapOut[2].cols[ParsedName(S_section_1)] = <<>>

---------------------------------------------------------------------------
(* eval_model (specification SpecEval).  train.data is a prefix of         *)
(* TrainRows; the test corpus is train_parsed.select(doc_ids) with doc_ids *)
(* drawn by np.random.randint, so with replacement.  infer_vector and      *)
(* most_similar belong to gensim: any ranking of the training tags may     *)
(* come back, with any similarity.                                         *)

MaxTrain == 3
MaxSample == 2
\* def eval_model(test, train, model, topn=10)
topn == 10

TrainRows ==
    << [cik |-> 1, year |-> 2014, section |-> <<"1">>],
       [cik |-> 1, year |-> 2014, section |-> <<"7", "A">>],
       [cik |-> 2, year |-> 2014, section |-> <<"1">>],
       [cik |-> 1, year |-> 2015, section |-> <<"1">>],
       [cik |-> 2, year |-> 2015, section |-> <<"7", "A">>] >>

SimLevels == {50, 100}

Rankings(n) ==
    {p \in [1..n -> 0..(n - 1)] : \A i, j \in 1..n : i # j => p[i] # p[j]}

Min(a, b) == IF a < b THEN a ELSE b

\* model.dv.most_similar(positive=[inferred_vector], topn=topn): the
\* rankings gensim may return, best first, as (docid, sim) pairs
MostSimilar(n, k) ==
    {[i \in 1..Min(k, n) |-> [docid |-> p[i], sim |-> sim]] :
        p \in Rankings(n), sim \in SimLevels}

\* dict(Counter(top_n[:, 0]))
CikCounter(top_n) ==
    [c \in {top_n[i].cik : i \in DOMAIN top_n} |->
        Cardinality({i \in DOMAIN top_n : top_n[i].cik = c})]

\* d[key] = value
DictSet(d, key, value) ==
    [k \in DOMAIN d \cup {key} |-> IF k = key THEN value ELSE d[k]]

KeyOf(row) == <<row.cik, row.year, row.section>>

\* the test without its comparison of the section
SameDocumentNoSection(t, k) == t[k].cik = k[1] /\ t[k].year = k[2]

\* if top[k][0] == c and top[k][1] == y and top[k][2] == s
SameDocument(t, k) == t[k].cik = k[1] /\ t[k].year = k[2] /\ t[k].section = k[3]

\* if top[k][0] == c
SameCompany(t, k) == t[k].cik = k[1]

\* for k in top: if ...: accuracy += 1
RECURSIVE CountDocument(_, _, _)
CountDocument(t, keys, accuracy) ==
    IF keys = {} THEN accuracy
    ELSE LET k == CHOOSE x \in keys : TRUE
         IN  CountDocument(t, keys \ {k},
                           IF SameDocument(t, k) THEN accuracy + 1 ELSE accuracy)

RECURSIVE CountCompany(_, _, _)
CountCompany(t, keys, accuracy) ==
    IF keys = {} THEN accuracy
    ELSE LET k == CHOOSE x \in keys : TRUE
         IN  CountCompany(t, keys \ {k},
                          IF SameCompany(t, k) THEN accuracy + 1 ELSE accuracy)

\* accuracy = 0; the first loop; accuracy / len(top)
DocumentAccuracy(t) ==
    [count |-> CountDocument(t, DOMAIN t, 0), total |-> Cardinality(DOMAIN t)]

\* the second loop started without "accuracy = 0"
CompanyAccuracyNoReset(t) ==
    [count |-> CountCompany(t, DOMAIN t, CountDocument(t, DOMAIN t, 0)),
     total |-> Cardinality(DOMAIN t)]

\* accuracy = 0; the second loop; accuracy / len(top)
CompanyAccuracy(t) ==
    [count |-> CountCompany(t, DOMAIN t, 0), total |-> Cardinality(DOMAIN t)]

InitEval ==
    /\ \E n \in 1..MaxTrain :
         /\ evTrain = SubSeq(TrainRows, 1, n)
         /\ \E m \in 1..MaxSample : \E doc_ids \in [1..m -> 0..(n - 1)] :
              evTest = [j \in 1..m |-> TrainRows[doc_ids[j] + 1]]
    /\ doc_id = 0
    /\ sims = None
    /\ top = <<>>
    /\ sim_docs = <<>>
    /\ evSeen = <<>>
    /\ evAcc = None
    /\ IdleParse /\ IdleMap /\ IdlePool /\ IdleWrap /\ IdleRun /\ IdleSplit /\ IdleFrame

\* one pass of "for doc_id in range(len(test))"; after the last pass the
\* two accuracies are computed and printed
EvalDoc ==
    /\ evAcc = None
    /\ doc_id < Len(evTest)
    /\ \E result \in MostSimilar(Len(evTrain), topn) :
         LET docids == [i \in DOMAIN result |-> result[i].docid]
             row == evTest[doc_id + 1]
             top_n == [i \in DOMAIN docids |-> evTrain[docids[i] + 1]]
             top1 == [cik |-> top_n[1].cik, year |-> top_n[1].year,
                      section |-> top_n[1].section, sim |-> result[1].sim]
             newTop == DictSet(top, KeyOf(row), top1)
         IN  /\ top' = newTop
             /\ sim_docs' = DictSet(sim_docs, row.cik, CikCounter(top_n))
             /\ evSeen' = Append(evSeen, [key |-> KeyOf(row), first |-> top_n[1]])
             /\ sims' = [list |-> result]
             /\ evAcc' = IF doc_id + 1 = Len(evTest)
                         THEN [document |-> DocumentAccuracy(newTop),
                               company |-> CompanyAccuracy(newTop)]
                         ELSE None
    /\ doc_id' = doc_id + 1
    /\ UNCHANGED <<evTrain, evTest, parseVars, mapVars, poolVars, wrapVars, runVars, splitVars, frameVars>>

NextEval == EvalDoc

SpecEval == InitEval /\ [][NextEval]_vars

\* the evaluated documents whose top-1 neighbour is the same document /
\* a document of the same company
SeenSameDocument == {j \in DOMAIN evSeen : KeyOf(evSeen[j].first) = evSeen[j].key}
SeenSameCompany == {j \in DOMAIN evSeen : evSeen[j].first.cik = evSeen[j].key[1]}

\* C2: each reported accuracy is the number of evaluated documents whose
\* top-1 neighbour matches divided by len(test), also when two evaluated
\* documents carry the same (cik, year, section).
C2_AccuracyOverEvaluated ==
    evAcc # None =>
      /\ evAcc.document.count * Len(evTest)
           = Cardinality(SeenSameDocument) * evAcc.document.total
      /\ evAcc.company.count * Len(evTest)
           = Cardinality(SeenSameCompany) * evAcc.company.total

\* C3: both reported accuracies lie in [0, 1].
C3_AccuracyInUnitInterval ==
    evAcc # None =>
      /\ evAcc.document.total > 0 /\ evAcc.company.total > 0
      /\ 0 <= evAcc.document.count /\ evAcc.document.count <= evAcc.document.total
      /\ 0 <= evAcc.company.count /\ evAcc.company.count <= evAcc.company.total

\* two different documents evaluated: one found itself, the other only
\* its company
C3_Witness ==
    /\ evAcc # None
    /\ evAcc.document = [count |-> 1, total |-> 2]
    /\ evAcc.company = [count |-> 2, total |-> 2]


\* the last pass of the loop that evaluated a document with this key
LastSeen(key) ==
    CHOOSE j \in DOMAIN evSeen :
      /\ evSeen[j].key = key
      /\ \A l \in DOMAIN evSeen : evSeen[l].key = key => l <= j

\* C16: after every pass of the loop, what eval_model holds for the key of
\* the document just evaluated is the first pair of the list most_similar
\* returned, looked up in train.data, with its similarity; at the end a key
\* is counted as a same-document hit exactly when the first neighbour
\* recorded for it has its cik, year and section, and as a same-company
\* hit exactly when it has its cik; so the same-document count is at most
\* the same-company count.
C16_HitsFromFirstNeighbour ==
    /\ sims # None =>
         LET nearest == evTrain[sims.list[1].docid + 1]
         IN  /\ doc_id > 0
             /\ top[KeyOf(evTest[doc_id])] =
                  [cik |-> nearest.cik, year |-> nearest.year,
                   section |-> nearest.section, sim |-> sims.list[1].sim]
             /\ evSeen[Len(evSeen)].first = nearest
    /\ evAcc # None =>
         /\ \A key \in DOMAIN top :
              KeyOf(top[key]) = KeyOf(evSeen[LastSeen(key)].first)
         /\ evAcc.document.count =
              Cardinality({key \in DOMAIN top : KeyOf(top[key]) = key})
         /\ evAcc.company.count =
              Cardinality({key \in DOMAIN top : top[key].cik = key[1]})
         /\ evAcc.document.count <= evAcc.company.count

\* a document whose first neighbour is another section of the same filing
\* (a same-company hit, not a same-document hit), from a ranking of three
\* that does not start with tag 0
C16_Witness ==
    /\ evAcc # None
    /\ evAcc.document.count < evAcc.company.count
    /\ Len(sims.list) = 3
    /\ sims.list[1].docid # 0
    /\ LET seen == evSeen[Len(evSeen)]
       IN  /\ seen.first.cik = seen.key[1]
           /\ seen.first.year = seen.key[2]
           /\ seen.first.section # seen.key[3]

---------------------------------------------------------------------------
(* get_embeddings and mean_pooling (specification SpecPool).               *)
(* The tokenizer and the encoder belong to transformers.  A batch of n     *)
(* documents is cut into chunks of at most MAX_LENGTH tokens, the chunks   *)
(* of a document next to each other (overflow_to_sample_mapping is         *)
(* non-decreasing and names every document) and all but a document's last  *)
(* chunk full; padding=True pads every chunk to the longest of the batch.  *)
(* The encoder gives every position, padded ones too, a vector of          *)
(* HiddenSize numbers.  Tensors are nested sequences; indices are 0-based  *)
(* as in the code, positions in sequences 1-based.  The three sizes are    *)
(* scaled down: BATCH_SIZE is 16, MAX_LENGTH 254 and the hidden size 384   *)
(* in the notebook.                                                        *)

BATCH_SIZE == 2
MAX_LENGTH == 2
HiddenSize == 2
\* chunks in a batch
MaxChunks == 4

TokenVecs == {[h \in 1..HiddenSize |-> 1], [h \in 1..HiddenSize |-> h]}

RECURSIVE SumSeq(_)
SumSeq(xs) == IF Len(xs) = 0 THEN 0 ELSE Head(xs) + SumSeq(Tail(xs))

RECURSIVE MaxSeq(_)
MaxSeq(xs) ==
    IF Len(xs) = 1 THEN xs[1]
    ELSE LET r == MaxSeq(Tail(xs)) IN IF Head(xs) > r THEN Head(xs) ELSE r

RECURSIVE GCD(_, _)
GCD(a, b) == IF b = 0 THEN a ELSE GCD(b, a % b)

\* the quotient a / (b / c) of a number and a positive fraction
Quotient(a, bc) ==
    LET num == a * bc[2]
        den == bc[1]
        g == GCD(num, den)
    IN  <<num \div g, den \div g>>

\* np.where(sample_map==i)[0]
Where(smap, i) == SelectSeq([c \in 1..Len(smap) |-> c - 1], LAMBDA c : smap[c + 1] = i)

\* s_idx = np.where(sample_map==i)[0][0]
StartIndex(smap, i) == Where(smap, i)[1]

\* e_idx = np.where(sample_map==i)[0][-1] + 1
EndIndex(smap, i) == Where(smap, i)[Len(Where(smap, i))] + 1

\* tensor[s_idx:e_idx]
Slice(tensor, s_idx, e_idx) == SubSeq(tensor, s_idx + 1, e_idx)

\* input_mask_expanded = tf.expand_dims(tf.cast(attention_mask, tf.float32), -1)
ExpandDims(mask) ==
    [c \in DOMAIN mask |-> [p \in DOMAIN mask[c] |-> <<mask[c][p]>>]]

\* the product without the mask
TimesUnmasked(emb, mask_expanded) == emb

\* token_embeddings[s_idx:e_idx] * input_mask_expanded[s_idx:e_idx],
\* the mask broadcast over the last axis
Times(emb, mask_expanded) ==
    [c \in DOMAIN emb |-> [p \in DOMAIN emb[c] |->
        [h \in DOMAIN emb[c][p] |-> emb[c][p][h] * mask_expanded[c][p][1]]]]

\* tf.reduce_sum(t, axis=[0, 2])
ReduceSumAxes02(t) ==
    [p \in DOMAIN t[1] |->
        SumSeq([c \in DOMAIN t |-> SumSeq(t[c][p])])]

\* tf.reduce_sum(t, axis=[0, 1])
ReduceSumAxes01(t) ==
    [h \in DOMAIN t[1][1] |->
        SumSeq([c \in DOMAIN t |-> SumSeq([p \in DOMAIN t[c] |-> t[c][p][h]])])]

\* tf.reduce_sum(t) over every axis
ReduceSumAll(t) ==
    SumSeq([c \in DOMAIN t |-> SumSeq([p \in DOMAIN t[c] |-> SumSeq(t[c][p])])])

\* tf.clip_by_value(x, clip_value_min=1e-7, clip_value_max=np.inf), as a fraction
ClipByValue(x) == IF x >= 1 THEN <<x, 1>> ELSE <<1, 10000000>>

\* the body of "for i in range(BATCH_SIZE)": sum_embeddings / sum_mask
PooledVector(emb, mask_expanded, smap, i) ==
    LET s_idx == StartIndex(smap, i)
        e_idx == EndIndex(smap, i)
        sum_embeddings ==
            ReduceSumAxes01(Times(Slice(emb, s_idx, e_idx),
                                  Slice(mask_expanded, s_idx, e_idx)))
        sum_mask == ClipByValue(ReduceSumAll(Slice(mask_expanded, s_idx, e_idx)))
    IN  [h \in DOMAIN sum_embeddings |-> Quotient(sum_embeddings[h], sum_mask)]

\* for i in range(BATCH_SIZE): ...; an empty np.where(...)[0] raises IndexError
RECURSIVE PoolFrom(_, _, _, _, _)
PoolFrom(emb, mask_expanded, smap, i, batch_result) ==
    IF i = BATCH_SIZE THEN [stack |-> batch_result]
    ELSE IF Len(Where(smap, i)) = 0 THEN [error |-> "IndexError"]
    ELSE PoolFrom(emb, mask_expanded, smap, i + 1,
                  Append(batch_result, PooledVector(emb, mask_expanded, smap, i)))

\* def mean_pooling(model_output, attention_mask, sample_map)
mean_pooling(model_output, mask, smap) ==
    PoolFrom(model_output[1], ExpandDims(mask), smap, 0, <<>>)

\* the chunk lengths the tokenizer can produce for a sample map
ChunkLengths(smap) ==
    {lens \in [1..Len(smap) -> 1..MAX_LENGTH] :
        \A c \in 1..(Len(smap) - 1) : smap[c] = smap[c + 1] => lens[c] = MAX_LENGTH}

SampleMaps(n, t) ==
    {m \in [1..t -> 0..(n - 1)] :
        /\ \A c \in 1..(t - 1) : m[c] <= m[c + 1]
        /\ \A i \in 0..(n - 1) : \E c \in 1..t : m[c] = i}

InitPool ==
    /\ \E n \in 1..(BATCH_SIZE + 1) :
         /\ plData = [cik |-> [i \in 1..n |-> 1000 + i],
                      year |-> [i \in 1..n |-> 2015],
                      section |-> [i \in 1..n |-> <<"1", "A">>]]
         /\ \E t \in n..MaxChunks : sample_map \in SampleMaps(n, t)
    /\ \E lens \in ChunkLengths(sample_map) :
         /\ attention_mask =
              [c \in 1..Len(lens) |->
                 [p \in 1..MaxSeq(lens) |-> IF p <= lens[c] THEN 1 ELSE 0]]
         /\ token_embeddings \in [1..Len(lens) -> [1..MaxSeq(lens) -> TokenVecs]]
    /\ plOut = None
    /\ IdleParse /\ IdleMap /\ IdleEval /\ IdleWrap /\ IdleRun /\ IdleSplit /\ IdleFrame

\* def get_embeddings(data, col_name), from the encoder's output on
GetEmbeddings ==
    /\ plOut = None
    /\ LET model_output == <<token_embeddings>>
           pooled == mean_pooling(model_output, attention_mask, sample_map)
       IN  plOut' = IF "error" \in DOMAIN pooled THEN pooled
                    ELSE [cik |-> plData.cik, year |-> plData.year,
                          section |-> plData.section, embedding |-> pooled.stack]
    /\ UNCHANGED <<plData, sample_map, attention_mask, token_embeddings,
                   parseVars, mapVars, evalVars, wrapVars, runVars, splitVars, frameVars>>

NextPool == GetEmbeddings

SpecPool == InitPool /\ [][NextPool]_vars

Returned == plOut # None /\ "error" \notin DOMAIN plOut

\* C4: whatever the number of documents of the batch, get_embeddings
\* returns an embedding column with one vector per document, as many rows
\* as the cik, year and section columns.
C4_OneVectorPerDocument ==
    plOut # None =>
      /\ "error" \notin DOMAIN plOut
      /\ Len(plOut.embedding) = Len(plOut.cik)
      /\ Len(plOut.embedding) = Len(plOut.year)
      /\ Len(plOut.embedding) = Len(plOut.section)

\* the chunks of document i, and the unmasked positions of a chunk
ChunksOf(i) == {c \in DOMAIN sample_map : sample_map[c] = i}
Unmasked(c) == {p \in DOMAIN attention_mask[c] : attention_mask[c][p] = 1}

RECURSIVE SumOver(_, _, _)
SumOver(cells, emb, h) ==
    IF cells = {} THEN 0
    ELSE LET x == CHOOSE y \in cells : TRUE
         IN  emb[x[1]][x[2]][h] + SumOver(cells \ {x}, emb, h)

\* C5: the vector of document i is the sum of the token vectors at the
\* unmasked positions of exactly the chunks mapped to i, divided by the
\* number of those positions; the slice [s_idx, e_idx) holds no chunk of
\* another document.
C5_MeanOfOwnUnmaskedTokens ==
    Returned =>
      \A i \in 0..(Len(plOut.embedding) - 1) :
        LET cells == {x \in (DOMAIN sample_map) \X (1..MAX_LENGTH) :
                         x[1] \in ChunksOf(i) /\ x[2] \in Unmasked(x[1])}
        IN  /\ \A c \in (StartIndex(sample_map, i) + 1)..EndIndex(sample_map, i) :
                 sample_map[c] = i
            /\ ChunksOf(i) \subseteq
                 (StartIndex(sample_map, i) + 1)..EndIndex(sample_map, i)
            /\ plOut.embedding[i + 1] =
                 [h \in 1..HiddenSize |->
                    Quotient(SumOver(cells, token_embeddings, h),
                             <<Cardinality(cells), 1>>)]

\* a full batch whose first document has two chunks and whose second
\* document is one padded chunk
C5_Witness ==
    /\ Returned
    /\ sample_map = <<0, 0, 1>>
    /\ attention_mask[3] = <<1, 0>>
    /\ token_embeddings[3][2] # token_embeddings[3][1]
    /\ Len(plOut.embedding) = BATCH_SIZE

\* C8: every vector of the embedding column has the encoder's hidden size
\* as its length, whatever the chunks and the padding of the batch.
C8_ConstantVectorLength ==
    Returned => \A i \in DOMAIN plOut.embedding : Len(plOut.embedding[i]) = HiddenSize

\* documents of one and of two chunks in a batch, and a batch without padding
C8_Witness ==
    /\ Returned
    /\ \/ sample_map = <<0, 1, 1>> /\ attention_mask[1] = <<1, 0>>
       \/ Len(attention_mask[1]) = 1
    /\ \A i \in DOMAIN plOut.embedding : Len(plOut.embedding[i]) = HiddenSize

---------------------------------------------------------------------------
(* wrap and concatenate_datasets (specification SpecWrap).                 *)
(* A dataset is a list of rows; a row has cik, year, section where the     *)
(* column exists, and its text columns under cols.                         *)

S_parsed_sections == <<"p", "a", "r", "s", "e", "d", "_", "s", "e", "c", "t", "i", "o", "n", "s">>
S_raw_sections == <<"r", "a", "w", "_", "s", "e", "c", "t", "i", "o", "n", "s">>

\* col.split('_')[0]
FirstPart(col) == Split(col, "_")[1]

\* col.split('_')[-1]
LastPart(col) == Split(col, "_")[Len(Split(col, "_"))]

\* the pass without its filter
WrapColumnNoFilter(data, col, new_name) ==
    [i \in 1..Len(data) |->
        [cik |-> data[i].cik, year |-> data[i].year,
         section |-> LastPart(col),
         cols |-> [name \in {new_name} |-> data[i].cols[col]]]]

\* one pass of "for col in col_names": select_columns, filter,
\* add_column, rename_column
WrapColumn(data, col, new_name) ==
    LET temp == SelectSeq(data, LAMBDA example : example.cols[col] # <<>>)
    IN  [i \in 1..Len(temp) |->
            [cik |-> temp[i].cik, year |-> temp[i].year,
             section |-> LastPart(col),
             cols |-> [name \in {new_name} |-> temp[i].cols[col]]]]

\* def wrap(data, col_names, new_name)
wrap(data, cols, new_name) ==
    [k \in 1..Len(cols) |-> WrapColumn(data, cols[k], new_name)]

\* datasets.concatenate_datasets(wrapped, axis=0)
RECURSIVE concatenate_datasets(_)
concatenate_datasets(dsets) ==
    IF Len(dsets) = 0 THEN <<>>
    ELSE Head(dsets) \o concatenate_datasets(Tail(dsets))

\* PARSED_SECTIONS = set(train_parsed.column_names) - set(['cik', 'year'])
PARSED_SECTIONS == {ParsedName(SECTIONS_TO_PARSE[k]) : k \in DOMAIN SECTIONS_TO_PARSE}

\* the orders in which "for col in col_names" may go through a set
IterationOrders(S) ==
    {o \in [1..Cardinality(S) -> S] : \A i, j \in DOMAIN o : i # j => o[i] # o[j]}

MaxWrapRows == 2

\* (cik, year) of the filings, pairwise distinct
FilingKeys == <<<<1, 2014>>, <<1, 2015>>, <<2, 2015>>>>

\* a parsed or raw text, by what wrap looks at: empty or not
WrapTexts == {<<>>, T_risk.text}

WrapInputs(n, colset) ==
    {[i \in 1..n |-> [cik |-> FilingKeys[i][1], year |-> FilingKeys[i][2], cols |-> c[i]]] :
        c \in [1..n -> [colset -> WrapTexts]]}

InitWrap ==
    /\ \E n \in 1..MaxWrapRows :
         \/ /\ wrData \in WrapInputs(n, PARSED_SECTIONS)
            /\ wrCols \in IterationOrders(PARSED_SECTIONS)
            /\ wrName = S_parsed_sections
         \/ /\ wrData \in WrapInputs(n, Range(SECTIONS_TO_PARSE))
            /\ wrCols = SECTIONS_TO_PARSE
            /\ wrName = S_raw_sections
    /\ wrapped = None
    /\ wrOut = None
    /\ IdleParse /\ IdleMap /\ IdleEval /\ IdlePool /\ IdleRun /\ IdleSplit /\ IdleFrame

\* wrapped = wrap(data, col_names, new_name=...)
\* data = datasets.concatenate_datasets(wrapped, axis=0)
WrapAndConcatenate ==
    /\ wrOut = None
    /\ wrapped' = [list |-> wrap(wrData, wrCols, wrName)]
    /\ wrOut' = [rows |-> concatenate_datasets(wrap(wrData, wrCols, wrName))]
    /\ UNCHANGED <<wrData, wrCols, wrName, parseVars, mapVars, evalVars, poolVars, runVars, splitVars, frameVars>>

NextWrap == WrapAndConcatenate

SpecWrap == InitWrap /\ [][NextWrap]_vars

\* C7: with pairwise distinct (cik, year) in the input, no two rows of the
\* concatenated output share (cik, year, section).
C7_KeyIdentifiesRow ==
    wrOut # None =>
      \A i, j \in DOMAIN wrOut.rows :
        i # j => KeyOf(wrOut.rows[i]) # KeyOf(wrOut.rows[j])

\* two filings of one company with two non-empty sections each
C7_Witness ==
    /\ wrOut # None
    /\ Len(wrData) >= 2
    /\ \E i, j, k, l \in DOMAIN wrOut.rows :
         /\ i # j /\ k # l
         /\ wrOut.rows[i].cik = wrOut.rows[j].cik
         /\ wrOut.rows[i].year = wrOut.rows[j].year
         /\ wrOut.rows[i].section # wrOut.rows[j].section
         /\ wrOut.rows[k].cik = wrOut.rows[l].cik
         /\ wrOut.rows[k].section = wrOut.rows[l].section
         /\ wrOut.rows[k].year # wrOut.rows[l].year


\* the positions of the records of data whose text in column col is not ''
NonEmptyAt(data, col) ==
    SelectSeq([i \in 1..Len(data) |-> i], LAMBDA i : data[i].cols[col] # <<>>)

\* label is what follows the last underscore of col
AfterLastUnderscore(col, label) ==
    /\ "_" \notin Range(label)
    /\ Len(col) > Len(label)
    /\ col[Len(col) - Len(label)] = "_"
    /\ SubSeq(col, Len(col) - Len(label) + 1, Len(col)) = label

\* C15: wrap returns one dataset per column of col_names; its rows are, in
\* order and one each, the records whose text in that column is not the
\* empty string, with the record's cik and year, the text under new_name
\* (and no other text column) and section the part of the column name
\* after its last underscore; no row has empty text.
C15_WrapKeepsNonEmptyPairs ==
    wrapped # None =>
      /\ Len(wrapped.list) = Len(wrCols)
      /\ \A k \in DOMAIN wrCols :
           LET out == wrapped.list[k]
               at == NonEmptyAt(wrData, wrCols[k])
           IN  /\ Len(out) = Len(at)
               /\ \A j \in DOMAIN out :
                    /\ out[j].cik = wrData[at[j]].cik
                    /\ out[j].year = wrData[at[j]].year
                    /\ DOMAIN out[j].cols = {wrName}
                    /\ out[j].cols[wrName] = wrData[at[j]].cols[wrCols[k]]
                    /\ out[j].cols[wrName] # <<>>
                    /\ AfterLastUnderscore(wrCols[k], out[j].section)

\* two records, the first with empty text in a column whose name has two
\* underscores, the second with text there: the dataset for it has one row
C15_Witness ==
    /\ wrapped # None
    /\ Len(wrData) = 2
    /\ \E k \in DOMAIN wrCols :
         /\ Len(SelectSeq(wrCols[k], LAMBDA c : c = "_")) = 2
         /\ wrData[1].cols[wrCols[k]] = <<>>
         /\ wrData[2].cols[wrCols[k]] # <<>>
         /\ Len(wrapped.list[k]) = 1
         /\ wrapped.list[k][1].cik = wrData[2].cik

---------------------------------------------------------------------------
(* The Doc2Vec cells, run top to bottom by one kernel after another        *)
(* (specification Spec).  The files under model_path outlive a kernel.     *)
(* PARSED_SECTIONS is a set of str: the order in which "for col in         *)
(* col_names" goes through it is fixed within a kernel and differs from    *)
(* one kernel to the next (str hashes are salted per process).  A model    *)
(* is represented by the documents each of its tags was given to in        *)
(* training, and the number of training passes it has had.                 *)

\* train_parsed as parse_sections left it: two filings, one without
\* section 7A
ParsedRows ==
    << [cik |-> 1, year |-> 2015,
        cols |-> [col \in PARSED_SECTIONS |-> T_risk.text]],
       [cik |-> 2, year |-> 2015,
        cols |-> [col \in PARSED_SECTIONS |->
                    IF col = ParsedName(S_section_7A) THEN <<>> ELSE T_debt.text]] >>

NoFiles ==
    [doc2vec_0 |-> None, word_vectors_0 |-> None,
     doc2vec_1 |-> None, word_vectors_1 |-> None]

\* os.path.exists(path)
Exists(path) == path # None

\* a fresh kernel, before the wrap cell
StartKernel(order) ==
    /\ pc' = "wrap"
    /\ setOrder' = order
    /\ train_parsed' = [rows |-> ParsedRows, format |-> None]
    /\ train_corpus' = None
    /\ gensim_model' = None
    /\ evalLast' = None

Init ==
    /\ pc = "wrap"
    /\ setOrder \in IterationOrders(PARSED_SECTIONS)
    /\ train_parsed = [rows |-> ParsedRows, format |-> None]
    /\ train_corpus = None
    /\ gensim_model = None
    /\ evalLast = None
    /\ disk = NoFiles
    /\ ran = [train |-> 0, save |-> 0]
    /\ IdleParse /\ IdleMap /\ IdleEval /\ IdlePool /\ IdleWrap /\ IdleSplit /\ IdleFrame

Others == <<parseVars, mapVars, evalVars, poolVars, wrapVars, splitVars, frameVars>>

\* wrapped = wrap(train_parsed, PARSED_SECTIONS, new_name='parsed_sections')
\* train_parsed = datasets.concatenate_datasets(wrapped, axis=0)
WrapCell ==
    /\ pc = "wrap"
    /\ train_parsed' =
         [rows |-> concatenate_datasets(
                       wrap(train_parsed.rows, setOrder, S_parsed_sections)),
          format |-> train_parsed.format]
    /\ pc' = "corpus"
    /\ UNCHANGED <<setOrder, train_corpus, gensim_model, disk, evalLast, ran, Others>>

\* Corpus.__init__ and Corpus.__iter__: document i of self.df is tagged [i]
Corpus(data, col_name) ==
    [data |-> data,
     df |-> [i \in 1..Len(data) |-> data[i].cols[col_name]],
     tags |-> [i \in 1..Len(data) |-> i - 1]]

\* self.data.set_format('pandas'): the format of the Dataset object itself
set_format(data, type) == [data EXCEPT !.format = [type |-> type]]

\* train_corpus = Corpus(train_parsed, col_name='parsed_sections');
\* self.data is the object train_parsed names
CorpusCell ==
    /\ pc = "corpus"
    /\ train_parsed' = set_format(train_parsed, "pandas")
    /\ train_corpus' = Corpus(train_parsed.rows, S_parsed_sections)
    /\ pc' = "train_0"
    /\ UNCHANGED <<setOrder, gensim_model, disk, evalLast, ran, Others>>

\* Doc2Vec(documents=train_corpus, ...): tag i is given to document i
Doc2Vec(corpus) ==
    [carried |-> [i \in 1..Len(corpus.df) |-> {KeyOf(corpus.data[i])}],
     passes |-> 1]

\* gensim_model.train(train_corpus, ...): the vector of tag i is trained
\* further on document i of the corpus
Train(model, corpus) ==
    [carried |-> [i \in DOMAIN model.carried |->
                    model.carried[i] \cup
                      (IF i <= Len(corpus.df) THEN {KeyOf(corpus.data[i])} ELSE {})],
     passes |-> model.passes + 1]

\* if os.path.exists(doc2vec_0.model): Doc2Vec.load, KeyedVectors.load
LoadModel0 ==
    /\ pc = "train_0"
    /\ Exists(disk.doc2vec_0)
    /\ gensim_model' = disk.doc2vec_0
    /\ pc' = "eval_0"
    /\ UNCHANGED <<setOrder, train_parsed, train_corpus, disk, evalLast, ran, Others>>

\* the else branch without its two save calls
TrainModel0NoSave ==
    /\ pc = "train_0"
    /\ ~Exists(disk.doc2vec_0)
    /\ gensim_model' = Doc2Vec(train_corpus)
    /\ ran' = [ran EXCEPT !.train = @ + 1]
    /\ pc' = "eval_0"
    /\ UNCHANGED <<setOrder, train_parsed, train_corpus, disk, evalLast, Others>>

\* else: gensim_model = Doc2Vec(...); gensim_model.save; gensim_model.wv.save
TrainModel0 ==
    /\ pc = "train_0"
    /\ ~Exists(disk.doc2vec_0)
    /\ gensim_model' = Doc2Vec(train_corpus)
    /\ disk' = [disk EXCEPT !.doc2vec_0 = Doc2Vec(train_corpus),
                            !.word_vectors_0 = [of |-> "doc2vec_0"]]
    /\ ran' = [train |-> ran.train + 1, save |-> ran.save + 2]
    /\ pc' = "eval_0"
    /\ UNCHANGED <<setOrder, train_parsed, train_corpus, evalLast, Others>>

\* top, sim_docs = eval_model(valid_corpus, train_corpus, gensim_model):
\* a neighbour tag docid returned by the model is looked up in train.data
EvalCell(here, next) ==
    /\ pc = here
    /\ \E docid \in 0..(Len(gensim_model.carried) - 1) :
         /\ docid < Len(train_corpus.data)
         /\ evalLast' = [docid |-> docid,
                         attributed |-> KeyOf(train_corpus.data[docid + 1]),
                         carried |-> gensim_model.carried[docid + 1],
                         passes |-> gensim_model.passes]
    /\ pc' = next
    /\ UNCHANGED <<setOrder, train_parsed, train_corpus, gensim_model, disk, ran, Others>>

\* if os.path.exists(doc2vec_1.model): Doc2Vec.load, KeyedVectors.load
LoadModel1 ==
    /\ pc = "train_1"
    /\ Exists(disk.doc2vec_1)
    /\ gensim_model' = disk.doc2vec_1
    /\ pc' = "eval_1"
    /\ UNCHANGED <<setOrder, train_parsed, train_corpus, disk, evalLast, ran, Others>>

\* the else branch saving under the names of the first model
TrainModel1SaveAs0 ==
    /\ pc = "train_1"
    /\ ~Exists(disk.doc2vec_1)
    /\ gensim_model' = Train(gensim_model, train_corpus)
    /\ disk' = [disk EXCEPT !.doc2vec_0 = Train(gensim_model, train_corpus),
                            !.word_vectors_0 = [of |-> "doc2vec_0"]]
    /\ ran' = [train |-> ran.train + 1, save |-> ran.save + 2]
    /\ pc' = "eval_1"
    /\ UNCHANGED <<setOrder, train_parsed, train_corpus, evalLast, Others>>

\* else: gensim_model.train(...); gensim_model.save; gensim_model.wv.save
TrainModel1 ==
    /\ pc = "train_1"
    /\ ~Exists(disk.doc2vec_1)
    /\ gensim_model' = Train(gensim_model, train_corpus)
    /\ disk' = [disk EXCEPT !.doc2vec_1 = Train(gensim_model, train_corpus),
                            !.word_vectors_1 = [of |-> "doc2vec_1"]]
    /\ ran' = [train |-> ran.train + 1, save |-> ran.save + 2]
    /\ pc' = "eval_1"
    /\ UNCHANGED <<setOrder, train_parsed, train_corpus, evalLast, Others>>

\* the notebook is run again in a new kernel; the files stay
RestartKernel ==
    /\ pc = "done"
    /\ \E order \in IterationOrders(PARSED_SECTIONS) : StartKernel(order)
    /\ UNCHANGED <<disk, ran, Others>>

Next ==
    \/ WrapCell
    \/ CorpusCell
    \/ LoadModel0
    \/ TrainModel0
    \/ EvalCell("eval_0", "train_1")
    \/ LoadModel1
    \/ TrainModel1
    \/ EvalCell("eval_1", "done")
    \/ RestartKernel

Spec == Init /\ [][Next]_vars

\* C6: the (cik, year, section) eval_model gives a neighbour tag is that
\* of the document that carried the tag when the model was trained, for
\* every iteration order of PARSED_SECTIONS, the model trained in this
\* kernel or loaded from the checkpoint of an earlier one.
C6_TagNamesTrainedDocument ==
    evalLast # None => evalLast.carried = {evalLast.attributed}

\* C11: the cells run in the order wrap (clean), corpus, train or load,
\* persist, evaluate: when control reaches an eval_model call, the model it
\* is about to evaluate is the content of its checkpoint file (it was just
\* saved to or loaded from doc2vec_0.model at the first call, doc2vec_1.model
\* at the second), the corpus was built from the wrapped rows, and
\* doc2vec_1.model never exists without doc2vec_0.model.
C11_EvalAfterSaveOrLoad ==
    /\ pc \in {"eval_0", "eval_1"} => train_corpus # None /\ gensim_model # None
    /\ pc = "eval_0" =>
         /\ disk.doc2vec_0 # None /\ disk.word_vectors_0 # None
         /\ gensim_model = disk.doc2vec_0
    /\ pc = "eval_1" =>
         /\ disk.doc2vec_1 # None /\ disk.word_vectors_1 # None
         /\ gensim_model = disk.doc2vec_1
    /\ disk.doc2vec_1 # None => disk.doc2vec_0 # None
    /\ evalLast # None => disk.doc2vec_0 # None

\* both eval_model calls of a kernel made, the second on the model that
\* has had the continued training
C11_Witness ==
    /\ pc = "done"
    /\ evalLast # None
    /\ evalLast.passes = 2
    /\ disk.doc2vec_1 # None

\* C14: each train-or-load step (doc2vec_0, doc2vec_1) makes a training call
\* exactly when its checkpoint file does not exist; after the step its
\* checkpoint file and its word-vector file exist; a step that finds its
\* checkpoint makes no training call and no save call, leaves every file as
\* it is and holds the saved model; and a file once written is never
\* changed, so every later run of the step is such a load.
C14_TrainIffNoCheckpoint ==
    [][/\ \A f \in DOMAIN disk : disk[f] # None => disk'[f] = disk[f]
       /\ (pc = "train_0" /\ pc' = "eval_0") =>
            /\ ran'.train = ran.train + (IF disk.doc2vec_0 = None THEN 1 ELSE 0)
            /\ disk'.doc2vec_0 # None /\ disk'.word_vectors_0 # None
            /\ disk.doc2vec_0 # None =>
                  disk' = disk /\ ran' = ran /\ gensim_model' = disk.doc2vec_0
       /\ (pc = "train_1" /\ pc' = "eval_1") =>
            /\ ran'.train = ran.train + (IF disk.doc2vec_1 = None THEN 1 ELSE 0)
            /\ disk'.doc2vec_1 # None /\ disk'.word_vectors_1 # None
            /\ disk.doc2vec_1 # None =>
                  disk' = disk /\ ran' = ran /\ gensim_model' = disk.doc2vec_1
      ]_vars

\* the second step run again by a later kernel, whose rows are in another
\* order than those the saved model was trained on: both models were
\* trained once, four files saved once, and the saved model is held
C14_Witness ==
    /\ pc = "eval_1"
    /\ ran = [train |-> 2, save |-> 4]
    /\ gensim_model = disk.doc2vec_1
    /\ disk.doc2vec_0.carried[1] # {KeyOf(train_corpus.data[1])}

---------------------------------------------------------------------------
(* The load cell and the year split (specification SpecSplit).             *)
(* The hub dataset has one configuration per year; a year is the str the   *)
(* hub stores.  What load_from_disk finds under data_path was saved by the *)
(* download branch of an earlier execution, whose START_YEAR and END_YEAR  *)
(* were those of today or up to YearSlack years away.                      *)

START_YEAR == 2010
END_YEAR == 2016
YearSlack == 1

Digits == <<"0", "1", "2", "3", "4", "5", "6", "7", "8", "9">>

\* str(n)
RECURSIVE StrOf(_)
StrOf(n) == IF n < 10 THEN <<Digits[n + 1]>> ELSE Append(StrOf(n \div 10), Digits[(n % 10) + 1])

\* int(s)
RECURSIVE IntOf(_)
IntOf(str) ==
    IF Len(str) = 0 THEN 0
    ELSE 10 * IntOf(SubSeq(str, 1, Len(str) - 1))
           + ((CHOOSE d \in 1..10 : Digits[d] = str[Len(str)]) - 1)

\* a < b for str
RECURSIVE StrLess(_, _)
StrLess(a, b) ==
    IF Len(b) = 0 THEN FALSE
    ELSE IF Len(a) = 0 THEN TRUE
    ELSE IF Head(a) = Head(b) THEN StrLess(Tail(a), Tail(b))
    ELSE IntOf(<<Head(a)>>) < IntOf(<<Head(b)>>)

\* sorted(set(xs))[-1]
SortedLast(xs) == CHOOSE x \in Range(xs) : \A y \in Range(xs) : y = x \/ StrLess(y, x)

\* datasets.load_dataset("eloukas/edgar-corpus", f"year_{year}", split="all")
LoadYear(year) == <<[cik |-> 1, year |-> StrOf(year)]>>

\* datasets.concatenate_datasets([years[year] for year in range(lo, hi)])
RECURSIVE ConcatYears(_, _)
ConcatYears(lo, hi) ==
    IF lo >= hi THEN <<>> ELSE LoadYear(lo) \o ConcatYears(lo + 1, hi)

\* train.train_test_split(train_size=0.8): floor(0.8 n) rows to "train",
\* the others to "test", drawn at random
TrainTestSplits(rows) ==
    LET n == Len(rows)
        n_train == (8 * n) \div 10
    IN  {[train |-> SelectSeq(rows, LAMBDA r : r \notin held),
          test |-> SelectSeq(rows, LAMBDA r : r \in held)] :
            held \in {h \in SUBSET Range(rows) : Cardinality(h) = n - n_train}}

\* the dataset dicts the "if not FROM_DISK" branch can build and save
Downloaded(start, stop) ==
    {[train |-> d.train, validation |-> d.test, test |-> LoadYear(stop)] :
        d \in TrainTestSplits(ConcatYears(start, stop))}

InitSplit ==
    /\ FROM_DISK \in BOOLEAN
    /\ \E start \in (START_YEAR - YearSlack)..(START_YEAR + YearSlack),
          stop \in (END_YEAR - YearSlack)..(END_YEAR + YearSlack) :
         dataDisk \in Downloaded(start, stop)
    /\ dataset = None
    /\ train = None
    /\ test = None
    /\ splitPc = "load"
    /\ IdleParse /\ IdleMap /\ IdleEval /\ IdlePool /\ IdleWrap /\ IdleRun /\ IdleFrame

Rest == <<parseVars, mapVars, evalVars, poolVars, wrapVars, runVars, frameVars>>

\* if not FROM_DISK: ...; dataset.save_to_disk(data_path)
DownloadCell ==
    /\ splitPc = "load"
    /\ FROM_DISK = FALSE
    /\ dataset' \in Downloaded(START_YEAR, END_YEAR)
    /\ dataDisk' = dataset'
    /\ splitPc' = "split"
    /\ UNCHANGED <<FROM_DISK, train, test, Rest>>

\* else: dataset = datasets.load_from_disk(data_path)
LoadFromDiskCell ==
    /\ splitPc = "load"
    /\ FROM_DISK = TRUE
    /\ dataset' = dataDisk
    /\ splitPc' = "split"
    /\ UNCHANGED <<FROM_DISK, dataDisk, train, test, Rest>>

\* train = concatenate_datasets([dataset["train"], dataset["validation"]])
\* test = dataset["test"]
\* if int(sorted(set(train['year']))[-1]) >= END_YEAR: test = ...; train = ...
SplitByYear(ds) ==
    LET all == ds.train \o ds.validation
    IN  IF IntOf(SortedLast([i \in DOMAIN all |-> all[i].year])) >= END_YEAR
        THEN [test |-> SelectSeq(all, LAMBDA row : IntOf(row.year) = END_YEAR),
              train |-> SelectSeq(all, LAMBDA row : IntOf(row.year) >= START_YEAR
                                                 /\ IntOf(row.year) < END_YEAR)]
        ELSE [test |-> ds.test, train |-> all]

SplitCell ==
    /\ splitPc = "split"
    /\ train' = [rows |-> SplitByYear(dataset).train]
    /\ test' = [rows |-> SplitByYear(dataset).test]
    /\ splitPc' = "done"
    /\ UNCHANGED <<FROM_DISK, dataDisk, dataset, Rest>>

NextSplit ==
    \/ DownloadCell
    \/ LoadFromDiskCell
    \/ SplitCell

SpecSplit == InitSplit /\ [][NextSplit]_vars

\* C9: after the split, on both paths, every record of train has its year
\* in [START_YEAR, END_YEAR) and every record of test has year END_YEAR.
C9_SplitByYear ==
    splitPc = "done" =>
      /\ \A i \in DOMAIN train.rows :
           START_YEAR <= IntOf(train.rows[i].year) /\ IntOf(train.rows[i].year) < END_YEAR
      /\ \A i \in DOMAIN test.rows : IntOf(test.rows[i].year) = END_YEAR

---------------------------------------------------------------------------
(* What a call does to the object it is given (specification SpecFrame).   *)
(* heap holds the Python objects by address: the dict parse_sections is    *)
(* given and the one it returns, Dataset objects (rows, column names and   *)
(* output format), the list wrap returns, Corpus objects.  A Corpus keeps  *)
(* the address of its dataset (self.data = data), not a copy.              *)

S_cik == <<"c", "i", "k">>
S_year == <<"y", "e", "a", "r">>
S_section == <<"s", "e", "c", "t", "i", "o", "n">>

\* a Dataset object
Dataset(rows, column_names, format) ==
    [kind |-> "Dataset", rows |-> rows, column_names |-> column_names,
     format |-> format]

\* the datasets wrap is given: train_parsed, test_parsed, train, test
FrameDatasets ==
    UNION {{Dataset(rows, {S_cik, S_year} \cup colset, None) :
               rows \in WrapInputs(n, colset)} :
           n \in 1..MaxWrapRows, colset \in {PARSED_SECTIONS, Range(SECTIONS_TO_PARSE)}}

InitFrame ==
    /\ \/ \E n \in 1..MaxBatch, cols \in ColNameLists :
            \E toks \in SeqsUpTo(Tokens, MaxTotalTokens) :
              \E cuts \in CutTable[n * Len(cols), Len(toks)] :
                 heap = <<[kind |-> "dict", value |-> MakeBatch(n, cols, toks, cuts)]>>
       \/ \E o \in FrameDatasets : heap = <<o>>
    /\ calls = [made |-> <<>>]
    /\ IdleParse /\ IdleMap /\ IdleEval /\ IdlePool /\ IdleWrap /\ IdleRun /\ IdleSplit

Called(op, at) ==
    \E k \in DOMAIN calls.made : calls.made[k].op = op /\ calls.made[k].at = at

Everything == <<parseVars, mapVars, evalVars, poolVars, wrapVars, runVars, splitVars>>

\* parse_sections(examples, col_names): reads examples, returns a new dict
ParseSectionsCall ==
    \E at \in DOMAIN heap, cols \in ColNameLists :
      /\ heap[at].kind = "dict"
      /\ Range(cols) = DOMAIN heap[at].value.cols
      /\ ~Called("parse_sections", at)
      /\ heap' = Append(heap, [kind |-> "dict",
                               value |-> parse_sections(heap[at].value, cols)])
      /\ calls' = [made |-> Append(calls.made,
                                     [op |-> "parse_sections", at |-> at, was |-> heap[at]])]
      /\ UNCHANGED Everything

\* wrapped = wrap(data, col_names, new_name); concatenate_datasets(wrapped):
\* select_columns, filter, add_column, rename_column and
\* concatenate_datasets each return a new Dataset
WrapCall ==
    \E at \in DOMAIN heap :
      /\ heap[at].kind = "Dataset"
      /\ ~Called("wrap", at)
      /\ \E cols \in IterationOrders(PARSED_SECTIONS) \cup {SECTIONS_TO_PARSE} :
           /\ Range(cols) \subseteq heap[at].column_names
           /\ LET new_name == IF cols = SECTIONS_TO_PARSE THEN S_raw_sections
                              ELSE S_parsed_sections
                  list == wrap(heap[at].rows, cols, new_name)
                  made == [k \in DOMAIN list |->
                             Dataset(list[k], {S_cik, S_year, S_section, new_name},
                                     heap[at].format)]
              IN  heap' = heap \o made
                            \o <<[kind |-> "list",
                                  items |-> [k \in DOMAIN list |-> Len(heap) + k]],
                                 Dataset(concatenate_datasets(list),
                                         {S_cik, S_year, S_section, new_name},
                                         heap[at].format)>>
      /\ calls' = [made |-> Append(calls.made,
                                     [op |-> "wrap", at |-> at, was |-> heap[at]])]
      /\ UNCHANGED Everything

\* Corpus(data, col_name) on the dataset concatenate_datasets returned:
\* self.data = data; self.data.set_format('pandas'); self.df = self.data[col_name]
CorpusInit ==
    \E col_name \in {S_parsed_sections, S_raw_sections} :
      LET at == Len(heap)
      IN  /\ heap[at].kind = "Dataset"
          /\ col_name \in heap[at].column_names
          /\ heap' = Append([heap EXCEPT ![at] = set_format(heap[at], "pandas")],
                            [kind |-> "Corpus", data |-> at,
                             df |-> Corpus(heap[at].rows, col_name).df])
          /\ calls' = [made |-> Append(calls.made,
                                     [op |-> "Corpus", at |-> at, was |-> heap[at]])]
          /\ UNCHANGED Everything

NextFrame ==
    \/ ParseSectionsCall
    \/ WrapCall
    \/ CorpusInit

SpecFrame == InitFrame /\ [][NextFrame]_vars

\* C12: after a Corpus was constructed over a dataset, wrap was called on a
\* dataset, or parse_sections was called on a batch, the object given is as
\* it was at the call: same contents, same columns, same output format.
C12_GivenObjectUnchanged ==
    calls # None =>
      \A k \in DOMAIN calls.made : heap[calls.made[k].at] = calls.made[k].was

===========================================================================
